---- MODULE Spec2Model ----
(***************************************************************************)
(* Model of the desktop proxy subsystem of                                 *)
(* packages/desktop/src-tauri/src/lib.rs: the shared AppState (settings    *)
(* and the two shutdown-handle slots), restart_proxy_internal with every   *)
(* await point of its body as one step, the HTTP and WS accept loops that  *)
(* start_http_proxy / start_ws_proxy spawn, the connection tasks the       *)
(* loops spawn, the WebSocket relay of handle_websocket_connection and the *)
(* request/response translation of handle_http_request.                    *)
(***************************************************************************)
EXTENDS Naturals, Integers, Sequences, FiniteSets, TLC

(***************************************************************************)
(* Bounds of the model.                                                    *)
(***************************************************************************)
\* connections accepted over a run, all accept loops together
MaxConns == 1
\* frames and stream events each side of a relay session sends
MaxFrames == 2
\* headers of a request and of a backend response
MaxHeaders == 2
\* connections accepted over a run of the specification of one generation
MaxServed == 2
\* trailing slashes of a backend origin
MaxSlashes == 2

\* Option<T>: None is the empty sequence, Some(x) the one-element sequence.
None == <<>>

Some(x) == <<x>>

\* The startup task of run() and two tasks, each serving one webview command.
Startup == "startup"

Ui == "ui"

Ui2 == "ui2"

Procs == {Startup, Ui, Ui2}

Kinds == {"http", "ws"}

\* The loopback ports bind(127.0.0.1:0) can be given: enough for every listener
\* of a run, so that a bind fails only where the model says so.
Ports == 1 .. 2 * Cardinality(Procs)

\* Backend origins, as token sequences (scheme, host, optional trailing "/").
UrlA == <<"https://", "assistant">>

UrlB == <<"http://", "localhost:3000", "/">>

Urls == {UrlA, UrlB}

OptUrls == {None} \cup {Some(u) : u \in Urls}

OptBools == {None} \cup {Some(b) : b \in BOOLEAN}

VARIABLES
    settings,              \* AppState.settings (AppSettings)
    proxy_shutdown_tx,     \* AppState.proxy_shutdown_tx: None or Some(loop of the Sender)
    ws_proxy_shutdown_tx,  \* AppState.ws_proxy_shutdown_tx
    loops,                 \* the running accept-loop tasks, by <<generation, kind>>
    conns,                 \* the connection tasks spawned so far, in accept order
    pc,                    \* position of every task in its command
    locals,                \* local variables of every task
    nextGen,               \* number of the next call of restart_proxy_internal
    genCfg,                \* history: the (backend_url, skip) each restart call read
    overlapped,            \* history: two restart calls were in progress at once
    sess,                  \* one relay session of handle_websocket_connection
    fwd                    \* one run of handle_http_request

supVars == <<settings, proxy_shutdown_tx, ws_proxy_shutdown_tx, loops, pc, locals,
             nextGen, genCfg, overlapped>>

vars == <<settings, proxy_shutdown_tx, ws_proxy_shutdown_tx, loops, conns,
          pc, locals, nextGen, genCfg, overlapped, sess, fwd>>

(***************************************************************************)
(* AppSettings and AppState::load.                                         *)
(***************************************************************************)
default_backend_url == UrlA

default_skip_cert_validation == TRUE

DefaultSettings ==
    [backend_url |-> default_backend_url,
     skip_cert_validation |-> default_skip_cert_validation,
     proxy_port |-> 0,
     ws_proxy_port |-> 0]

\* What load can find in settings.json: nothing or garbage (the default), or
\* the settings a previous run saved, with the ports that run had.
LoadedSettings ==
    {DefaultSettings,
     [backend_url |-> UrlB, skip_cert_validation |-> FALSE,
      proxy_port |-> 1, ws_proxy_port |-> 2]}

NoLocals ==
    [gen |-> 0, backend_url |-> None, skip_cert_validation |-> FALSE,
     http_port |-> 0, http_shutdown_tx |-> None,
     ws_port |-> 0, ws_shutdown_tx |-> None,
     needs_proxy_restart |-> FALSE, taken |-> {}, ret |-> "none",
     holds |-> {},     \* the MutexGuards the task holds
     prog |-> <<>>]    \* what is left of the operation, lock by lock

(***************************************************************************)
(* oneshot channel of an accept loop: "open" while the Sender is alive,    *)
(* "sent" once send(()) was called, "dropped" once the Sender was dropped  *)
(* unsent.  The receiver future resolves in the last two states.  A loop   *)
(* that has exited has dropped its Receiver: send then returns Err, which  *)
(* restart_proxy_internal ignores.                                         *)
(***************************************************************************)
SendShutdown(ls, tx) ==
    IF tx = None \/ tx[1] \notin DOMAIN ls THEN ls
    ELSE [ls EXCEPT ![tx[1]].chan = IF @ = "open" THEN "sent" ELSE @,
                    ![tx[1]].sends = @ + 1]

DropSender(ls, tx) ==
    IF tx = None \/ tx[1] \notin DOMAIN ls THEN ls
    ELSE [ls EXCEPT ![tx[1]].chan = IF @ = "open" THEN "dropped" ELSE @]

\* Option::take of a shutdown-handle slot: what the slot holds afterwards.
\* a read of the slot that leaves the handle in it
TakeSlotKeep(slot) == slot

TakeSlot(slot) == None

BoundPorts == {loops[l].port : l \in DOMAIN loops}

FreePorts == Ports \ BoundPorts

\* The port a bind to port 0 is given: one no live listener holds.
AssignedPorts == {q \in FreePorts : \A r \in FreePorts : q <= r}

NewLoop(kind, gen, url, skip, port) ==
    [kind |-> kind, gen |-> gen, backend_url |-> url,
     skip_cert_validation |-> skip, port |-> port,
     chan |-> "open", sends |-> 0,
     erred |-> FALSE]   \* accept() has returned an error

InRestart(p) ==
    pc[p] \in {"r_take_http", "r_take_ws", "r_settings", "r_http", "r_ws",
               "r_ports", "r_store_http", "r_store_ws", "r_save"}

\* Where a task goes when restart_proxy_internal returns r.
AfterRestart(p, r) ==
    IF p = Startup
    THEN (IF r = "ok" THEN "emit" ELSE "done")
    ELSE (IF r = "ok" THEN "u_ret" ELSE "done")

Return(p, r) ==
    /\ pc' = [pc EXCEPT ![p] = AfterRestart(p, r)]
    /\ locals' = [locals EXCEPT ![p] = [NoLocals EXCEPT !.gen = locals[p].gen,
                                                       !.ret = r]]

(***************************************************************************)
(* restart_proxy_internal, one action per await point.                     *)
(***************************************************************************)
\* if let Some(tx) = state.proxy_shutdown_tx.lock().await.take() { tx.send(()) }
TakeHttp(p) ==
    /\ pc[p] = "r_take_http"
    /\ loops' = SendShutdown(loops, proxy_shutdown_tx)
    /\ proxy_shutdown_tx' = TakeSlot(proxy_shutdown_tx)
    /\ locals' = [locals EXCEPT ![p].taken =
                     IF proxy_shutdown_tx = None THEN {} ELSE {proxy_shutdown_tx[1]}]
    /\ pc' = [pc EXCEPT ![p] = "r_take_ws"]
    /\ UNCHANGED <<settings, ws_proxy_shutdown_tx, conns, nextGen, genCfg, overlapped,
                   sess, fwd>>

TakeWs(p) ==
    /\ pc[p] = "r_take_ws"
    /\ loops' = SendShutdown(loops, ws_proxy_shutdown_tx)
    /\ ws_proxy_shutdown_tx' = TakeSlot(ws_proxy_shutdown_tx)
    /\ locals' = [locals EXCEPT ![p].taken =
                     IF ws_proxy_shutdown_tx = None THEN @
                     ELSE @ \cup {ws_proxy_shutdown_tx[1]}]
    /\ pc' = [pc EXCEPT ![p] = "r_settings"]
    /\ UNCHANGED <<settings, proxy_shutdown_tx, conns, nextGen, genCfg, overlapped,
                   sess, fwd>>

\* let settings = state.settings.lock().await; (backend_url.clone(), skip_cert_validation)
ReadSettings(p) ==
    /\ pc[p] = "r_settings"
    /\ locals' = [locals EXCEPT ![p].backend_url = settings.backend_url,
                                ![p].skip_cert_validation = settings.skip_cert_validation]
    /\ genCfg' = [genCfg EXCEPT ![locals[p].gen] =
                     <<settings.backend_url, settings.skip_cert_validation>>]
    /\ pc' = [pc EXCEPT ![p] = "r_http"]
    /\ UNCHANGED <<settings, proxy_shutdown_tx, ws_proxy_shutdown_tx, loops, conns,
                   nextGen, overlapped, sess, fwd>>

\* start_http_proxy(..).await? : the listener is bound and the accept loop spawned
StartHttpOk(p) ==
    /\ pc[p] = "r_http"
    /\ \E port \in AssignedPorts :
          /\ loops' = loops @@ (<<locals[p].gen, "http">> :>
                         NewLoop("http", locals[p].gen, locals[p].backend_url,
                                 locals[p].skip_cert_validation, port))
          /\ locals' = [locals EXCEPT ![p].http_port = port,
                                      ![p].http_shutdown_tx = Some(<<locals[p].gen, "http">>)]
    /\ pc' = [pc EXCEPT ![p] = "r_ws"]
    /\ UNCHANGED <<settings, proxy_shutdown_tx, ws_proxy_shutdown_tx, conns, nextGen,
                   genCfg, overlapped, sess, fwd>>

\* TcpListener::bind or local_addr fails: the ? returns the error
StartHttpFail(p) ==
    /\ pc[p] = "r_http"
    /\ Return(p, "bind_err")
    /\ UNCHANGED <<settings, proxy_shutdown_tx, ws_proxy_shutdown_tx, loops, conns,
                   nextGen, genCfg, overlapped, sess, fwd>>

\* start_ws_proxy(..).await?
StartWsOk(p) ==
    /\ pc[p] = "r_ws"
    /\ \E port \in AssignedPorts :
          /\ loops' = loops @@ (<<locals[p].gen, "ws">> :>
                         NewLoop("ws", locals[p].gen, locals[p].backend_url,
                                 locals[p].skip_cert_validation, port))
          /\ locals' = [locals EXCEPT ![p].ws_port = port,
                                      ![p].ws_shutdown_tx = Some(<<locals[p].gen, "ws">>)]
    /\ pc' = [pc EXCEPT ![p] = "r_ports"]
    /\ UNCHANGED <<settings, proxy_shutdown_tx, ws_proxy_shutdown_tx, conns, nextGen,
                   genCfg, overlapped, sess, fwd>>

\* the ? returns and the HTTP sender is kept alive by nobody in particular
StartWsFailLeak(p) ==
    /\ pc[p] = "r_ws"
    /\ Return(p, "bind_err")
    /\ UNCHANGED <<settings, proxy_shutdown_tx, ws_proxy_shutdown_tx, loops, conns,
                   nextGen, genCfg, overlapped, sess, fwd>>

\* the ? returns and http_shutdown_tx goes out of scope unsent
StartWsFail(p) ==
    /\ pc[p] = "r_ws"
    /\ loops' = DropSender(loops, locals[p].http_shutdown_tx)
    /\ Return(p, "bind_err")
    /\ UNCHANGED <<settings, proxy_shutdown_tx, ws_proxy_shutdown_tx, conns, nextGen,
                   genCfg, overlapped, sess, fwd>>

\* settings.proxy_port = http_port; settings.ws_proxy_port = ws_port
WritePorts(p) ==
    /\ pc[p] = "r_ports"
    /\ settings' = [settings EXCEPT !.proxy_port = locals[p].http_port,
                                    !.ws_proxy_port = locals[p].ws_port]
    /\ pc' = [pc EXCEPT ![p] = "r_store_http"]
    /\ UNCHANGED <<proxy_shutdown_tx, ws_proxy_shutdown_tx, loops, conns, locals,
                   nextGen, genCfg, overlapped, sess, fwd>>

\* *state.proxy_shutdown_tx.lock().await = Some(http_shutdown_tx): the value the
\* slot held is dropped
StoreHttp(p) ==
    /\ pc[p] = "r_store_http"
    /\ loops' = DropSender(loops, proxy_shutdown_tx)
    /\ proxy_shutdown_tx' = locals[p].http_shutdown_tx
    /\ locals' = [locals EXCEPT ![p].http_shutdown_tx = None]
    /\ pc' = [pc EXCEPT ![p] = "r_store_ws"]
    /\ UNCHANGED <<settings, ws_proxy_shutdown_tx, conns, nextGen, genCfg, overlapped,
                   sess, fwd>>

StoreWs(p) ==
    /\ pc[p] = "r_store_ws"
    /\ loops' = DropSender(loops, ws_proxy_shutdown_tx)
    /\ ws_proxy_shutdown_tx' = locals[p].ws_shutdown_tx
    /\ locals' = [locals EXCEPT ![p].ws_shutdown_tx = None]
    /\ pc' = [pc EXCEPT ![p] = "r_save"]
    /\ UNCHANGED <<settings, proxy_shutdown_tx, conns, nextGen, genCfg, overlapped,
                   sess, fwd>>

\* state.save().await?; Ok(())
RestartSaveOk(p) ==
    /\ pc[p] = "r_save"
    /\ Return(p, "ok")
    /\ UNCHANGED <<settings, proxy_shutdown_tx, ws_proxy_shutdown_tx, loops, conns,
                   nextGen, genCfg, overlapped, sess, fwd>>

RestartSaveFail(p) ==
    /\ pc[p] = "r_save"
    /\ Return(p, "save_err")
    /\ UNCHANGED <<settings, proxy_shutdown_tx, ws_proxy_shutdown_tx, loops, conns,
                   nextGen, genCfg, overlapped, sess, fwd>>

RestartStep(p) ==
    \/ TakeHttp(p)
    \/ TakeWs(p)
    \/ ReadSettings(p)
    \/ StartHttpOk(p)
    \/ StartHttpFail(p)
    \/ StartWsOk(p)
    \/ StartWsFail(p)
    \/ WritePorts(p)
    \/ StoreHttp(p)
    \/ StoreWs(p)
    \/ RestartSaveOk(p)
    \/ RestartSaveFail(p)

\* Entry of restart_proxy_internal: the call gets the next generation number.
EnterRestart(p) ==
    /\ pc' = [pc EXCEPT ![p] = "r_take_http"]
    /\ locals' = [locals EXCEPT ![p] = [NoLocals EXCEPT !.gen = nextGen]]
    /\ nextGen' = nextGen + 1
    /\ overlapped' = (overlapped \/ \E q \in Procs \ {p} : InRestart(q))

(***************************************************************************)
(* run(): after restart_proxy_internal returned Ok the startup task locks  *)
(* the settings and emits "proxy-ready".                                   *)
(***************************************************************************)
Emit(p) ==
    /\ pc[p] = "emit"
    /\ pc' = [pc EXCEPT ![p] = "done"]
    /\ UNCHANGED <<settings, proxy_shutdown_tx, ws_proxy_shutdown_tx, loops, conns,
                   locals, nextGen, genCfg, overlapped, sess, fwd>>

(***************************************************************************)
(* update_settings and set_backend_url.                                    *)
(***************************************************************************)
UpdateSettings(p, url, skip) ==
    /\ p # Startup
    /\ pc[p] = "idle"
    /\ LET chUrl == url # None /\ url[1] # settings.backend_url
           chSkip == skip # None /\ skip[1] # settings.skip_cert_validation
       IN /\ settings' = [settings EXCEPT
                 !.backend_url = IF chUrl THEN url[1] ELSE @,
                 !.skip_cert_validation = IF chSkip THEN skip[1] ELSE @]
          /\ locals' = [locals EXCEPT ![p] =
                 [NoLocals EXCEPT !.needs_proxy_restart = chUrl \/ chSkip]]
    /\ pc' = [pc EXCEPT ![p] = "u_save"]
    /\ UNCHANGED <<proxy_shutdown_tx, ws_proxy_shutdown_tx, loops, conns, nextGen,
                   genCfg, overlapped, sess, fwd>>

\* state.save().await?; if needs_proxy_restart { restart_proxy_internal(..).await? }
UpdateSaveOk(p) ==
    /\ pc[p] = "u_save"
    /\ IF locals[p].needs_proxy_restart
       THEN EnterRestart(p)
       ELSE /\ pc' = [pc EXCEPT ![p] = "u_ret"]
            /\ UNCHANGED <<locals, nextGen, overlapped>>
    /\ UNCHANGED <<settings, proxy_shutdown_tx, ws_proxy_shutdown_tx, loops, conns,
                   genCfg, sess, fwd>>

UpdateSaveFail(p) ==
    /\ pc[p] = "u_save"
    /\ pc' = [pc EXCEPT ![p] = "done"]
    /\ locals' = [locals EXCEPT ![p] = [NoLocals EXCEPT !.ret = "save_err"]]
    /\ UNCHANGED <<settings, proxy_shutdown_tx, ws_proxy_shutdown_tx, loops, conns,
                   nextGen, genCfg, overlapped, sess, fwd>>

\* let settings = state.settings.lock().await; Ok(settings.clone())
UpdateReturn(p) ==
    /\ pc[p] = "u_ret"
    /\ pc' = [pc EXCEPT ![p] = "done"]
    /\ UNCHANGED <<settings, proxy_shutdown_tx, ws_proxy_shutdown_tx, loops, conns,
                   locals, nextGen, genCfg, overlapped, sess, fwd>>

SetBackendUrl(p, url) ==
    /\ p # Startup
    /\ pc[p] = "idle"
    /\ settings' = [settings EXCEPT !.backend_url = url]
    /\ pc' = [pc EXCEPT ![p] = "s_save"]
    /\ UNCHANGED <<proxy_shutdown_tx, ws_proxy_shutdown_tx, loops, conns, locals,
                   nextGen, genCfg, overlapped, sess, fwd>>

SetBackendUrlSave(p) ==
    /\ pc[p] = "s_save"
    /\ pc' = [pc EXCEPT ![p] = "done"]
    /\ \E r \in {"ok", "save_err"} : locals' = [locals EXCEPT ![p].ret = r]
    /\ UNCHANGED <<settings, proxy_shutdown_tx, ws_proxy_shutdown_tx, loops, conns,
                   nextGen, genCfg, overlapped, sess, fwd>>

\* The read-only commands: what they return in the current state.
Ok(v) == [ok |-> TRUE, val |-> v]

Err(e) == [ok |-> FALSE, val |-> e]

get_proxy_url ==
    IF settings.proxy_port > 0 THEN Ok(<<"localhost:", settings.proxy_port>>)
    ELSE Err("Proxy not running")

get_ws_proxy_port ==
    IF settings.ws_proxy_port > 0 THEN Ok(settings.ws_proxy_port)
    ELSE Err("WebSocket proxy not running")

\* the accept loop ends and takes the connection tasks it spawned with it
LoopExitAbort(l) ==
    /\ l \in DOMAIN loops
    /\ loops[l].chan # "open"
    /\ loops' = [m \in DOMAIN loops \ {l} |-> loops[m]]
    /\ conns' = [k \in DOMAIN conns |->
                   IF <<conns[k].gen, conns[k].kind>> = l
                   THEN [conns[k] EXCEPT !.st = "closed", !.target = <<>>, !.expect = <<>>]
                   ELSE conns[k]]
    /\ UNCHANGED <<settings, proxy_shutdown_tx, ws_proxy_shutdown_tx, pc,
                   locals, nextGen, genCfg, overlapped, sess, fwd>>

(***************************************************************************)
(* The accept loops of start_http_proxy and start_ws_proxy.  An exited     *)
(* loop has dropped its listener and its Receiver and is no longer in      *)
(* loops.                                                                  *)
(***************************************************************************)
\* the shutdown_rx branch of select!: ready once the channel is sent or dropped
LoopExit(l) ==
    /\ l \in DOMAIN loops
    /\ loops[l].chan # "open"
    /\ loops' = [m \in DOMAIN loops \ {l} |-> loops[m]]
    /\ UNCHANGED <<settings, proxy_shutdown_tx, ws_proxy_shutdown_tx, conns, pc,
                   locals, nextGen, genCfg, overlapped, sess, fwd>>

\* The "new origin" a client expects once the latest restart call has returned
\* Ok and no restart call is in progress: the origin that call read.
ExpectedOrigin ==
    IF /\ \A p \in Procs : ~InRestart(p)
       /\ \E p \in Procs : locals[p].gen = nextGen - 1 /\ locals[p].ret = "ok"
    THEN Some(genCfg[nextGen - 1][1])
    ELSE None

\* str::trim_end_matches('/')
RECURSIVE TrimEndSlash(_)
TrimEndSlash(url) ==
    IF url # <<>> /\ url[Len(url)] = "/" THEN TrimEndSlash(SubSeq(url, 1, Len(url) - 1))
    ELSE url

\* replace(from, to) on the tokens of a URL: every occurrence is replaced
ReplaceAll(url, from, to) == [k \in 1 .. Len(url) |-> IF url[k] = from THEN to ELSE url[k]]

\* ProxyState::ws_url
ws_url(backend_url) ==
    TrimEndSlash(ReplaceAll(ReplaceAll(backend_url, "http://", "ws://"), "https://", "wss://"))
       \o <<"/ws">>

Reply(status, hs, body) == [status |-> status, headers |-> hs, body |-> body]

\* StatusCode::BAD_REQUEST, "Failed to read request body"
BadRequestReply == Reply(400, <<>>, <<"Failed to read request body">>)

\* StatusCode::BAD_GATEWAY, format!("Proxy error: {}", e)
ProxyErrorReply == Reply(502, <<>>, <<"Proxy error: ", "e">>)

\* StatusCode::BAD_GATEWAY, "Failed to read response"
ReadErrorReply == Reply(502, <<>>, <<"Failed to read response">>)

\* How handle_http_request can end, and the reply it returns then: the backend
\* answered, or one of the three error exits was taken.
ErrorOutcomes == {"body_err", "send_err", "read_err"}

ReplyOf(outcome) ==
    CASE outcome = "body_err" -> BadRequestReply
      [] outcome = "send_err" -> ProxyErrorReply
      [] outcome = "read_err" -> ReadErrorReply

\* tokio::spawn(async move { .. }) of the accept branch: the task owns the stream
\* and a clone of the loop's Arc<ProxyState>.
NewConn(l) ==
    [kind |-> loops[l].kind, gen |-> loops[l].gen,
     backend_url |-> loops[l].backend_url,
     skip_cert_validation |-> loops[l].skip_cert_validation,
     st |-> IF loops[l].kind = "http" THEN "serving" ELSE "handshake",
     target |-> None, expect |-> None,
     late |-> (loops[l].chan = "sent"),
     outlived |-> FALSE,
     failed |-> "", error_reply |-> None, \* the error exit the last request took, if
                                          \* it took one, and the reply it returned
     dialed |-> None,                     \* the URL of the backend WebSocket dialled
     ended |-> ""]                        \* where the task returned

\* A task that has returned at the place named: nothing else of it is left.
ClosedConn(c, at) ==
    [c EXCEPT !.st = "closed", !.target = None, !.expect = None,
              !.late = FALSE, !.outlived = FALSE,
              !.failed = "", !.error_reply = None, !.dialed = None,
              !.ended = at]

\* the origin read from the settings at request time
RequestOriginLive(c) == settings.backend_url

\* The origin a request of connection task c is sent to: proxy_state.backend_url.
RequestOrigin(c) == c.backend_url

\* the accept branch of select!: it can be the one taken whenever a connection is
\* pending, also when shutdown_rx is ready
AcceptWithin(l, n) ==
    /\ l \in DOMAIN loops
    /\ Len(conns) < n
    /\ conns' = Append(conns, NewConn(l))
    /\ UNCHANGED <<supVars, sess, fwd>>

Accept(l) == AcceptWithin(l, MaxConns)

\* an accept error that ends the accept loop
AcceptErrorBreak(l) ==
    /\ l \in DOMAIN loops
    /\ loops' = [m \in DOMAIN loops \ {l} |-> loops[m]]
    /\ UNCHANGED <<settings, proxy_shutdown_tx, ws_proxy_shutdown_tx, conns, pc,
                   locals, nextGen, genCfg, overlapped, sess, fwd>>

\* Err(e) => eprintln!(".. Accept error: {}", e): the loop goes round again
AcceptError(l) ==
    /\ l \in DOMAIN loops
    /\ loops' = [loops EXCEPT ![l].erred = TRUE]
    /\ UNCHANGED <<settings, proxy_shutdown_tx, ws_proxy_shutdown_tx, conns, pc,
                   locals, nextGen, genCfg, overlapped, sess, fwd>>

LoopOf(c) == <<c.gen, c.kind>>

(***************************************************************************)
(* The connection tasks.  HTTP: serve_connection calls handle_http_request *)
(* for each request of the connection, one at a time.  WS:                 *)
(* handle_websocket_connection accepts the upgrade, dials the backend and  *)
(* relays.                                                                 *)
(***************************************************************************)
HttpRequest(i) ==
    /\ i \in DOMAIN conns
    /\ conns[i].kind = "http" /\ conns[i].st = "serving" /\ conns[i].target = None
    /\ conns' = [conns EXCEPT ![i].target = Some(RequestOrigin(conns[i])),
                              ![i].expect = ExpectedOrigin,
                              ![i].failed = "", ![i].error_reply = None]
    /\ UNCHANGED <<supVars, sess, fwd>>

\* an error exit that takes the connection task down
RepliedAndGone(c, outcome) ==
    [c EXCEPT !.st = "closed", !.target = None, !.expect = None,
              !.failed = outcome, !.error_reply = Some(ReplyOf(outcome))]

\* handle_http_request returns Ok(response) on its error exits too
Replied(c, outcome) ==
    [c EXCEPT !.target = None, !.expect = None,
              !.outlived = @ \/ LoopOf(c) \notin DOMAIN loops,
              !.failed = outcome, !.error_reply = Some(ReplyOf(outcome))]

\* the backend answered and the reply is built from its response
HttpResponse(i) ==
    /\ i \in DOMAIN conns
    /\ conns[i].kind = "http" /\ conns[i].target # None
    /\ conns' = [conns EXCEPT ![i].target = None, ![i].expect = None,
                              ![i].outlived = @ \/ LoopOf(conns[i]) \notin DOMAIN loops,
                              ![i].failed = "", ![i].error_reply = None]
    /\ UNCHANGED <<supVars, sess, fwd>>

\* the request body cannot be read (400), the outbound request fails (502) or the
\* response body cannot be read (502)
HttpError(i, outcome) ==
    /\ i \in DOMAIN conns
    /\ conns[i].kind = "http" /\ conns[i].target # None
    /\ conns' = [conns EXCEPT ![i] = Replied(@, outcome)]
    /\ UNCHANGED <<supVars, sess, fwd>>

\* the client closes the connection, or serve_connection ends with an error
HttpClose(i) ==
    /\ i \in DOMAIN conns
    /\ conns[i].kind = "http" /\ conns[i].st = "serving"
    /\ conns' = [conns EXCEPT ![i] = ClosedConn(@, "serve_connection")]
    /\ UNCHANGED <<supVars, sess, fwd>>

\* a failed upgrade that goes on to the dial
WsHandshakeOn(i, ok) ==
    /\ i \in DOMAIN conns
    /\ conns[i].st = "handshake"
    /\ conns' = [conns EXCEPT ![i].st = "dial"]
    /\ UNCHANGED <<supVars, sess, fwd>>

\* tokio_tungstenite::accept_async(client_stream).await; on Err: return
WsHandshake(i, ok) ==
    /\ i \in DOMAIN conns
    /\ conns[i].st = "handshake"
    /\ conns' = [conns EXCEPT ![i] = IF ok THEN [@ EXCEPT !.st = "dial"]
                                     ELSE ClosedConn(@, "accept_async")]
    /\ UNCHANGED <<supVars, sess, fwd>>

\* connect_async(&ws_url) / connect_async_tls_with_config(&ws_url, ..); on Err:
\* return; on Ok the streams are split and the two relay loops raced
WsDial(i, ok) ==
    /\ i \in DOMAIN conns
    /\ conns[i].st = "dial"
    /\ LET c == [conns[i] EXCEPT !.dialed = Some(ws_url(conns[i].backend_url))]
       IN conns' = [conns EXCEPT ![i] = IF ok THEN [c EXCEPT !.st = "relay"]
                                        ELSE ClosedConn(c, "connect_async")]
    /\ UNCHANGED <<supVars, sess, fwd>>

\* one frame read from one side and written to the other
WsRelay(i) ==
    /\ i \in DOMAIN conns
    /\ conns[i].st = "relay"
    /\ conns' = [conns EXCEPT ![i].outlived = @ \/ LoopOf(conns[i]) \notin DOMAIN loops]
    /\ UNCHANGED <<supVars, sess, fwd>>

\* select! returns: one of the two relay loops ended
WsEnd(i) ==
    /\ i \in DOMAIN conns
    /\ conns[i].st = "relay"
    /\ conns' = [conns EXCEPT ![i] = ClosedConn(@, "select")]
    /\ UNCHANGED <<supVars, sess, fwd>>

\* The steps of the connection tasks.
TaskStep ==
    \/ \E i \in DOMAIN conns : HttpRequest(i)
    \/ \E i \in DOMAIN conns : HttpResponse(i)
    \/ \E i \in DOMAIN conns : HttpClose(i)
    \/ \E i \in DOMAIN conns, ok \in BOOLEAN : WsHandshake(i, ok)
    \/ \E i \in DOMAIN conns, ok \in BOOLEAN : WsDial(i, ok)
    \/ \E i \in DOMAIN conns : WsRelay(i)
    \/ \E i \in DOMAIN conns : WsEnd(i)

ConnStep ==
    \/ \E l \in DOMAIN loops : Accept(l)
    \/ TaskStep

NoSess == [st |-> "none"]

NoFwd == [st |-> "none"]

\* The supervisor as load leaves it, for the specifications of one session and
\* of one request.
InitIdle ==
    /\ settings = DefaultSettings
    /\ proxy_shutdown_tx = None
    /\ ws_proxy_shutdown_tx = None
    /\ loops = <<>>
    /\ conns = <<>>
    /\ pc = [p \in Procs |-> IF p = Startup THEN "r_take_http" ELSE "idle"]
    /\ locals = [p \in Procs |-> IF p = Startup THEN [NoLocals EXCEPT !.gen = 1] ELSE NoLocals]
    /\ nextGen = 2
    /\ genCfg = [g \in 1 .. Cardinality(Procs) |-> None]
    /\ overlapped = FALSE

(***************************************************************************)
(* handle_websocket_connection from the split on: the two relay loops and  *)
(* the select! that races them.  A stream yields frames, a read error or   *)
(* its end; a frame is <<type, payload>>.                                  *)
(***************************************************************************)
Frames == {<<"text", "hello">>, <<"binary", "0x01">>}

ReadErr == <<"err">>

Eof == <<"eof">>

Items == Frames \cup {ReadErr, Eof}

SeqsUpTo(S, n) == UNION {[1 .. k -> S] : k \in 0 .. n}

Streams == SeqsUpTo(Items, MaxFrames)

AtRead == <<"read">>

AtSend(msg) == <<"send", msg>>

Done == <<"done">>

Dropped == <<"dropped">>

NewSession(cin, bin) ==
    [st |-> "relay",
     sent_c |-> cin, sent_b |-> bin,     \* what each side sends, as a history
     in_c |-> cin, in_b |-> bin,         \* what is still to be read of it
     c2b |-> AtRead, b2c |-> AtRead,     \* where each relay loop is
     out_b |-> <<>>, out_c |-> <<>>]     \* the frames written to each side

\* a write that puts the frame ahead of the ones written before
DeliverFront(out, msg) == <<msg>> \o out

\* backend_write.send(msg) / client_write.send(msg): the frame goes out as read
Deliver(out, msg) == Append(out, msg)

\* a join of the two loops: the session ends when both have ended
JoinBoth(s, dir) ==
    LET t == IF dir = "c2b" THEN [s EXCEPT !.c2b = <<"done">>] ELSE [s EXCEPT !.b2c = <<"done">>]
    IN IF t.c2b = <<"done">> /\ t.b2c = <<"done">> THEN [t EXCEPT !.st = "closed"] ELSE t

\* tokio::select! over the two loops: the first loop to end ends the session and
\* the other loop is dropped where it is.
SelectFirst(s, dir) ==
    IF dir = "c2b"
    THEN [s EXCEPT !.st = "closed", !.c2b = Done, !.b2c = Dropped]
    ELSE [s EXCEPT !.st = "closed", !.b2c = Done, !.c2b = Dropped]

\* while let Some(msg) = client_read.next().await { match msg { Ok(msg) => .., Err => break } }
C2BRead ==
    /\ sess.st = "relay" /\ sess.c2b = AtRead /\ sess.in_c # <<>>
    /\ LET item == Head(sess.in_c)
           s == [sess EXCEPT !.in_c = Tail(@)]
       IN sess' = IF item \in Frames THEN [s EXCEPT !.c2b = AtSend(item)]
                  ELSE SelectFirst(s, "c2b")
    /\ UNCHANGED <<supVars, conns, fwd>>

\* if let Err(e) = backend_write.send(msg).await { break }
C2BWrite(ok) ==
    /\ sess.st = "relay" /\ sess.c2b # AtRead /\ sess.c2b[1] = "send"
    /\ sess' = IF ok THEN [sess EXCEPT !.out_b = Deliver(@, sess.c2b[2]), !.c2b = AtRead]
               ELSE SelectFirst(sess, "c2b")
    /\ UNCHANGED <<supVars, conns, fwd>>

B2CRead ==
    /\ sess.st = "relay" /\ sess.b2c = AtRead /\ sess.in_b # <<>>
    /\ LET item == Head(sess.in_b)
           s == [sess EXCEPT !.in_b = Tail(@)]
       IN sess' = IF item \in Frames THEN [s EXCEPT !.b2c = AtSend(item)]
                  ELSE SelectFirst(s, "b2c")
    /\ UNCHANGED <<supVars, conns, fwd>>

B2CWrite(ok) ==
    /\ sess.st = "relay" /\ sess.b2c # AtRead /\ sess.b2c[1] = "send"
    /\ sess' = IF ok THEN [sess EXCEPT !.out_c = Deliver(@, sess.b2c[2]), !.b2c = AtRead]
               ELSE SelectFirst(sess, "b2c")
    /\ UNCHANGED <<supVars, conns, fwd>>

InitRelay ==
    /\ InitIdle
    /\ \E cin \in Streams, bin \in Streams : sess = NewSession(cin, bin)
    /\ fwd = NoFwd

NextRelay ==
    \/ C2BRead
    \/ \E ok \in BOOLEAN : C2BWrite(ok)
    \/ B2CRead
    \/ \E ok \in BOOLEAN : B2CWrite(ok)

SpecRelay == InitRelay /\ [][NextRelay]_vars

(***************************************************************************)
(* handle_http_request: one request through the forwarder.  Header names   *)
(* arrive as the peer wrote them and are HeaderNames (lower case) once     *)
(* parsed; a header value is bytes, and to_str() fails on a value that is  *)
(* not visible ASCII.                                                      *)
(***************************************************************************)
HeaderName(raw) ==
    CASE raw = "Host" -> "host"
      [] raw = "Accept" -> "accept"
      [] raw = "X-Bin" -> "x-bin"
      [] raw = "Transfer-Encoding" -> "transfer-encoding"
      [] raw = "Content-Type" -> "content-type"
      [] raw = "Set-Cookie" -> "set-cookie"
      [] OTHER -> raw

\* req.headers() / resp.headers(): the header map as the handler sees it
HeaderMap(hs) == [k \in 1 .. Len(hs) |-> <<HeaderName(hs[k][1]), hs[k][2]>>]

OpaqueValue == "bytes:ff"

\* HeaderValue::to_str
ToStr(v) == IF v = OpaqueValue THEN None ELSE Some(v)

RequestHeaders == {<<"Host", "localhost:4410">>, <<"Accept", "*/*">>, <<"X-Bin", OpaqueValue>>}

ResponseHeaders == {<<"Transfer-Encoding", "chunked">>, <<"Content-Type", "text/plain">>,
                    <<"Set-Cookie", "a=1">>}

\* Methods the upstream client parses: the standard ones and extension tokens.
UpstreamMethods == {"GET", "POST", "PURGE"}

\* A method of an inbound request that the upstream client does not parse.
UnparsedMethod == "UNPARSED"

Methods == UpstreamMethods \cup {UnparsedMethod}

\* reqwest::Method::from_bytes
MethodFromBytes(m) == IF m \in UpstreamMethods THEN Some(m) ELSE None

PathAndQuery == {None, Some(<<"/api/items", "?q=1">>)}

Bodies == {<<>>, <<"b1", "b2">>}

Requests ==
    [method : Methods, path_and_query : PathAndQuery,
     headers : SeqsUpTo(RequestHeaders, MaxHeaders), body : Bodies]

StatusCodes == {200, 404}

Responses ==
    [status : StatusCodes, headers : SeqsUpTo(ResponseHeaders, MaxHeaders), body : Bodies]

\* uri.path_and_query().map(..).unwrap_or("/")
PathOf(req) == IF req.path_and_query = None THEN <<"/">> ELSE req.path_and_query[1]

\* format!("{}{}", proxy_state.backend_url.trim_end_matches('/'), path)
BackendUrlFor(origin, req) == TrimEndSlash(origin) \o PathOf(req)

\* an outbound request that is always a GET
OutboundMethodGet(m) == "GET"

\* reqwest::Method::from_bytes(method.as_str().as_bytes()).unwrap_or(reqwest::Method::GET)
OutboundMethod(m) == IF MethodFromBytes(m) # None THEN MethodFromBytes(m)[1] ELSE "GET"

Forwardable(h) == h[1] # "host" /\ ToStr(h[2]) # None

\* for (name, value) in headers.iter() { if name != "host" { if let Ok(v) = value.to_str() {..} } }
OutboundHeaders(hs) == SelectSeq(HeaderMap(hs), Forwardable)

OutboundRequest(req, origin) ==
    [method |-> OutboundMethod(req.method),
     url |-> BackendUrlFor(origin, req),
     headers |-> OutboundHeaders(req.headers),
     body |-> IF req.body # <<>> THEN Some(req.body) ELSE None]

NotTransferEncoding(h) == h[1] # "transfer-encoding"

\* a copy of the response headers that skips none
ReplyHeadersAll(hs) == HeaderMap(hs)

\* for (name, value) in resp.headers() { if name != "transfer-encoding" {..} }
ReplyHeaders(hs) == SelectSeq(HeaderMap(hs), NotTransferEncoding)

NewForward(req, origin) ==
    [st |-> "called", req |-> req, origin |-> origin,
     outbound |-> None,   \* the request sent to the backend
     resp |-> None,       \* the response of the backend
     got_body |-> FALSE,  \* resp.bytes() returned Ok
     reply |-> None]      \* what the handler returns

\* req.collect().await
CollectBody(ok) ==
    /\ fwd.st = "called"
    /\ fwd' = IF ok THEN [fwd EXCEPT !.st = "collected"]
              ELSE [fwd EXCEPT !.st = "replied",
                               !.reply = Some(BadRequestReply)]
    /\ UNCHANGED <<supVars, conns, sess>>

\* proxy_req.send().await fails
SendFails ==
    /\ fwd.st = "collected"
    /\ fwd' = [fwd EXCEPT !.st = "replied",
                          !.outbound = Some(OutboundRequest(fwd.req, fwd.origin)),
                          !.reply = Some(ProxyErrorReply)]
    /\ UNCHANGED <<supVars, conns, sess>>

\* proxy_req.send().await yields the response head of the backend
SendOk(r) ==
    /\ fwd.st = "collected"
    /\ fwd' = [fwd EXCEPT !.st = "sent",
                          !.outbound = Some(OutboundRequest(fwd.req, fwd.origin)),
                          !.resp = Some(r)]
    /\ UNCHANGED <<supVars, conns, sess>>

\* resp.bytes().await
ReadResponseBody(ok) ==
    /\ fwd.st = "sent"
    /\ LET r == fwd.resp[1]
       IN fwd' = [fwd EXCEPT !.st = "replied", !.got_body = ok,
                     !.reply = IF ok THEN Some(Reply(r.status, ReplyHeaders(r.headers), r.body))
                               ELSE Some(ReadErrorReply)]
    /\ UNCHANGED <<supVars, conns, sess>>

InitHttp ==
    /\ InitIdle
    /\ sess = NoSess
    /\ \E req \in Requests, origin \in Urls : fwd = NewForward(req, origin)

NextHttp ==
    \/ \E ok \in BOOLEAN : CollectBody(ok)
    \/ SendFails
    \/ \E r \in Responses : SendOk(r)
    \/ \E ok \in BOOLEAN : ReadResponseBody(ok)

SpecHttp == InitHttp /\ [][NextHttp]_vars

InitSup ==
    /\ settings \in LoadedSettings
    /\ proxy_shutdown_tx = None
    /\ ws_proxy_shutdown_tx = None
    /\ loops = <<>>
    /\ conns = <<>>
    /\ pc = [p \in Procs |-> IF p = Startup THEN "r_take_http" ELSE "idle"]
    /\ locals = [p \in Procs |-> IF p = Startup THEN [NoLocals EXCEPT !.gen = 1] ELSE NoLocals]
    /\ nextGen = 2
    /\ genCfg = [g \in 1 .. Cardinality(Procs) |-> None]
    /\ overlapped = FALSE

Init ==
    /\ InitSup
    /\ sess = NoSess
    /\ fwd = NoFwd

\* The steps of the tasks once their command has started, and of the accept loops.
SupStep ==
    \/ \E p \in Procs : RestartStep(p)
    \/ \E p \in Procs : Emit(p)
    \/ \E p \in Procs : UpdateSaveOk(p)
    \/ \E p \in Procs : UpdateSaveFail(p)
    \/ \E p \in Procs : UpdateReturn(p)
    \/ \E p \in Procs : SetBackendUrlSave(p)
    \/ \E l \in DOMAIN loops : LoopExit(l)

(***************************************************************************)
(* Spec: the startup task and one command, in any interleaving; no         *)
(* connection is made.                                                     *)
(***************************************************************************)
Next ==
    \/ SupStep
    \/ \E url \in OptUrls, skip \in OptBools : UpdateSettings(Ui, url, skip)
    \/ \E url \in Urls : SetBackendUrl(Ui, url)

Spec == Init /\ [][Next]_vars

(***************************************************************************)
(* SpecConn: the startup task, then one command, with clients connecting   *)
(* to the listeners at any time.                                           *)
(***************************************************************************)
NextConn ==
    \/ SupStep
    \/ \E url \in OptUrls, skip \in OptBools :
          pc[Startup] = "done" /\ UpdateSettings(Ui, url, skip)
    \/ \E url \in Urls : pc[Startup] = "done" /\ SetBackendUrl(Ui, url)
    \/ ConnStep

SpecConn == Init /\ [][NextConn]_vars

(***************************************************************************)
(* SpecRace: two update_settings commands that change the backend URL,     *)
(* issued after a startup that succeeded, in any interleaving; every bind  *)
(* and every save succeeds.                                                *)
(***************************************************************************)
InitRace ==
    /\ settings = [DefaultSettings EXCEPT !.proxy_port = 1, !.ws_proxy_port = 2]
    /\ proxy_shutdown_tx = Some(<<1, "http">>)
    /\ ws_proxy_shutdown_tx = Some(<<1, "ws">>)
    /\ loops = (<<1, "http">> :> NewLoop("http", 1, default_backend_url,
                                         default_skip_cert_validation, 1))
            @@ (<<1, "ws">> :> NewLoop("ws", 1, default_backend_url,
                                       default_skip_cert_validation, 2))
    /\ conns = <<>>
    /\ pc = [p \in Procs |-> IF p = Startup THEN "done" ELSE "idle"]
    /\ locals = [p \in Procs |->
                    IF p = Startup THEN [NoLocals EXCEPT !.gen = 1, !.ret = "ok"]
                    ELSE NoLocals]
    /\ nextGen = 2
    /\ genCfg = [g \in 1 .. Cardinality(Procs) |->
                    IF g = 1 THEN <<default_backend_url, default_skip_cert_validation>>
                    ELSE None]
    /\ overlapped = FALSE
    /\ sess = NoSess
    /\ fwd = NoFwd

NextRace ==
    \/ \E p \in {Ui, Ui2}, url \in OptUrls : UpdateSettings(p, url, None)
    \/ \E p \in Procs : UpdateSaveOk(p)
    \/ \E p \in Procs : TakeHttp(p)
    \/ \E p \in Procs : TakeWs(p)
    \/ \E p \in Procs : ReadSettings(p)
    \/ \E p \in Procs : StartHttpOk(p)
    \/ \E p \in Procs : StartWsOk(p)
    \/ \E p \in Procs : WritePorts(p)
    \/ \E p \in Procs : StoreHttp(p)
    \/ \E p \in Procs : StoreWs(p)
    \/ \E p \in Procs : RestartSaveOk(p)
    \/ \E p \in Procs : UpdateReturn(p)
    \/ \E l \in DOMAIN loops : LoopExit(l)

SpecRace == InitRace /\ [][NextRace]_vars

(***************************************************************************)
(* SpecServe: the generation a default startup left running, its clients   *)
(* and their failures, and the stop step of a restart that an              *)
(* update_settings command starts.                                         *)
(***************************************************************************)
\* The state once a startup with backend origin o has returned Ok.
Running(o) ==
    /\ settings = [backend_url |-> o, skip_cert_validation |-> TRUE,
                   proxy_port |-> 1, ws_proxy_port |-> 2]
    /\ loops = (<<1, "http">> :> NewLoop("http", 1, o, TRUE, 1))
            @@ (<<1, "ws">> :> NewLoop("ws", 1, o, TRUE, 2))
    /\ genCfg = [g \in 1 .. Cardinality(Procs) |-> IF g = 1 THEN <<o, TRUE>> ELSE None]
    /\ proxy_shutdown_tx = Some(<<1, "http">>)
    /\ ws_proxy_shutdown_tx = Some(<<1, "ws">>)
    /\ conns = <<>>
    /\ pc = [p \in Procs |-> IF p = Startup THEN "done" ELSE "idle"]
    /\ locals = [p \in Procs |->
                    IF p = Startup THEN [NoLocals EXCEPT !.gen = 1, !.ret = "ok"]
                    ELSE NoLocals]
    /\ nextGen = 2
    /\ overlapped = FALSE
    /\ sess = NoSess
    /\ fwd = NoFwd

InitServe == Running(default_backend_url)

NextServe ==
    \/ \E l \in DOMAIN loops : AcceptWithin(l, MaxServed)
    \/ \E l \in DOMAIN loops : AcceptError(l)
    \/ TaskStep
    \/ \E i \in DOMAIN conns, outcome \in ErrorOutcomes : HttpError(i, outcome)
    \/ UpdateSettings(Ui, None, Some(FALSE))
    \/ UpdateSaveOk(Ui)
    \/ TakeHttp(Ui)
    \/ TakeWs(Ui)
    \/ \E l \in DOMAIN loops : LoopExit(l)

SpecServe == InitServe /\ [][NextServe]_vars

(***************************************************************************)
(* SpecDial: the connection tasks of a generation started with any of the  *)
(* origins below.  backend_url is any string set_backend_url was given or  *)
(* settings.json holds: a scheme, a host, any number of trailing slashes,  *)
(* and possibly a URL with its own scheme inside.                          *)
(***************************************************************************)
Schemes == {"http://", "https://"}

Insides == {<<>>, <<"/to/", "http://", "inner">>, <<"/to/", "https://", "inner">>}

RECURSIVE Slashes(_)
Slashes(n) == IF n = 0 THEN <<>> ELSE <<"/">> \o Slashes(n - 1)

Origins ==
    {<<sch, "gateway">> \o mid \o Slashes(n) :
        sch \in Schemes, mid \in Insides, n \in 0 .. MaxSlashes}

InitDial == \E o \in Origins : Running(o)

NextDial ==
    \/ \E l \in DOMAIN loops : Accept(l)
    \/ TaskStep

SpecDial == InitDial /\ [][NextDial]_vars

(***************************************************************************)
(* SpecLock: the operations as sequences of lock, unlock, access to the    *)
(* value a Mutex guards, and fallible calls, in the order and with the     *)
(* guard scopes of the source.  A guard is released where its scope ends   *)
(* and, with every other guard, when a ? returns early.                    *)
(***************************************************************************)
Locks == {"settings", "proxy_shutdown_tx", "ws_proxy_shutdown_tx"}

Lock(m) == <<"lock", m>>

Unlock(m) == <<"unlock", m>>

Use(m) == <<"use", m>>

Try == <<"try", "">>

\* AppState::save: the guard lives to the end of the function
SaveProg ==
    <<Lock("settings"), Try, Use("settings"), Try, Try, Unlock("settings")>>

\* a restart that keeps the guard of the HTTP slot while it takes the WS slot
RestartProgNested ==
    <<Lock("proxy_shutdown_tx"), Use("proxy_shutdown_tx"),
      Lock("ws_proxy_shutdown_tx"), Use("ws_proxy_shutdown_tx"),
      Unlock("ws_proxy_shutdown_tx"), Unlock("proxy_shutdown_tx"),
      Lock("settings"), Use("settings"), Unlock("settings"),
      Try, Try,
      Lock("settings"), Use("settings"), Unlock("settings"),
      Lock("proxy_shutdown_tx"), Use("proxy_shutdown_tx"), Unlock("proxy_shutdown_tx"),
      Lock("ws_proxy_shutdown_tx"), Use("ws_proxy_shutdown_tx"),
      Unlock("ws_proxy_shutdown_tx")>> \o SaveProg

\* restart_proxy_internal: the two if-let takes, the settings block, the two
\* starts, the settings block, the two stores, save
RestartProg ==
    <<Lock("proxy_shutdown_tx"), Use("proxy_shutdown_tx"), Unlock("proxy_shutdown_tx"),
      Lock("ws_proxy_shutdown_tx"), Use("ws_proxy_shutdown_tx"),
      Unlock("ws_proxy_shutdown_tx"),
      Lock("settings"), Use("settings"), Unlock("settings"),
      Try, Try,
      Lock("settings"), Use("settings"), Unlock("settings"),
      Lock("proxy_shutdown_tx"), Use("proxy_shutdown_tx"), Unlock("proxy_shutdown_tx"),
      Lock("ws_proxy_shutdown_tx"), Use("ws_proxy_shutdown_tx"),
      Unlock("ws_proxy_shutdown_tx")>> \o SaveProg

\* get_backend_url, get_settings, get_proxy_url, get_ws_proxy_port
GetterProg == <<Lock("settings"), Use("settings"), Unlock("settings")>>

SetBackendUrlProg == <<Lock("settings"), Use("settings"), Unlock("settings")>> \o SaveProg

UpdateSettingsProg(needs_proxy_restart) ==
    <<Lock("settings"), Use("settings"), Unlock("settings")>>
       \o SaveProg
       \o (IF needs_proxy_restart THEN RestartProg ELSE <<>>)
       \o <<Lock("settings"), Use("settings"), Unlock("settings")>>

\* the task run() spawns: restart_proxy_internal, then on Ok the emit under the
\* settings guard
StartupProg == RestartProg \o <<Lock("settings"), Use("settings"), Unlock("settings")>>

CommandProgs ==
    {GetterProg, SetBackendUrlProg, UpdateSettingsProg(FALSE), UpdateSettingsProg(TRUE)}

InOperation(p) == pc[p] = "l_run" /\ locals[p].prog # <<>>

NextItem(p) == locals[p].prog[1]

Held(m) == \E q \in Procs : m \in locals[q].holds

Advance(p, holds) ==
    /\ locals' = [locals EXCEPT ![p].prog = Tail(@), ![p].holds = holds]
    /\ UNCHANGED <<pc, settings, proxy_shutdown_tx, ws_proxy_shutdown_tx, loops, conns,
                   nextGen, genCfg, overlapped, sess, fwd>>

\* a command is invoked
Call(p, prog) ==
    /\ p # Startup
    /\ pc[p] = "idle"
    /\ pc' = [pc EXCEPT ![p] = "l_run"]
    /\ locals' = [locals EXCEPT ![p].prog = prog]
    /\ UNCHANGED <<settings, proxy_shutdown_tx, ws_proxy_shutdown_tx, loops, conns,
                   nextGen, genCfg, overlapped, sess, fwd>>

\* m.lock().await: granted when no task holds the Mutex, the caller included
LockStep(p) ==
    /\ InOperation(p) /\ NextItem(p)[1] = "lock"
    /\ ~Held(NextItem(p)[2])
    /\ Advance(p, locals[p].holds \cup {NextItem(p)[2]})

\* the guard goes out of scope
UnlockStep(p) ==
    /\ InOperation(p) /\ NextItem(p)[1] = "unlock"
    /\ Advance(p, locals[p].holds \ {NextItem(p)[2]})

\* the guarded value is read or written
UseStep(p) ==
    /\ InOperation(p) /\ NextItem(p)[1] = "use"
    /\ Advance(p, locals[p].holds)

TryOk(p) ==
    /\ InOperation(p) /\ NextItem(p)[1] = "try"
    /\ Advance(p, locals[p].holds)

\* the ? returns the error: the operation ends and its guards are dropped
TryErr(p) ==
    /\ InOperation(p) /\ NextItem(p)[1] = "try"
    /\ locals' = [locals EXCEPT ![p].prog = <<>>, ![p].holds = {}, ![p].ret = "err"]
    /\ UNCHANGED <<pc, settings, proxy_shutdown_tx, ws_proxy_shutdown_tx, loops, conns,
                   nextGen, genCfg, overlapped, sess, fwd>>

\* the operation returns
Finish(p) ==
    /\ pc[p] = "l_run" /\ locals[p].prog = <<>>
    /\ pc' = [pc EXCEPT ![p] = "done"]
    /\ UNCHANGED <<locals, settings, proxy_shutdown_tx, ws_proxy_shutdown_tx, loops,
                   conns, nextGen, genCfg, overlapped, sess, fwd>>

TaskRuns(p) ==
    \/ LockStep(p)
    \/ UnlockStep(p)
    \/ UseStep(p)
    \/ TryOk(p)
    \/ TryErr(p)
    \/ Finish(p)

InitLock ==
    /\ settings = DefaultSettings
    /\ proxy_shutdown_tx = None
    /\ ws_proxy_shutdown_tx = None
    /\ loops = <<>>
    /\ conns = <<>>
    /\ pc = [p \in Procs |-> IF p = Startup THEN "l_run" ELSE "idle"]
    /\ locals = [p \in Procs |->
                    IF p = Startup THEN [NoLocals EXCEPT !.prog = StartupProg]
                    ELSE NoLocals]
    /\ nextGen = 1
    /\ genCfg = [g \in 1 .. Cardinality(Procs) |-> None]
    /\ overlapped = FALSE
    /\ sess = NoSess
    /\ fwd = NoFwd

NextLock ==
    \/ \E p \in Procs, prog \in CommandProgs : Call(p, prog)
    \/ \E p \in Procs : TaskRuns(p)

\* the runtime polls every task that can go on, and a tokio Mutex is granted in
\* the order it was asked for
LockFair == \A p \in Procs : WF_vars(TaskRuns(p))

SpecLock == InitLock /\ [][NextLock]_vars /\ LockFair

(***************************************************************************)
(* SpecFair: Spec with the scheduling of the accept loops.  select! polls  *)
(* its branches in random order and a resolved shutdown_rx stays resolved, *)
(* so a loop whose receiver has resolved takes the shutdown branch sooner  *)
(* or later.                                                               *)
(***************************************************************************)
LoopIds == (1 .. Cardinality(Procs)) \X Kinds

LoopsFair == \A l \in LoopIds : WF_vars(LoopExit(l))

SpecFair == Init /\ [][Next]_vars /\ LoopsFair

(***************************************************************************)
(* Properties of the supervisor.                                           *)
(***************************************************************************)
Quiescent == \A p \in Procs : ~InRestart(p)

\* The accept loops that remain running: their channel is neither sent nor dropped.
LiveLoops == {l \in DOMAIN loops : loops[l].chan = "open"}

SlotLoops(slot) == IF slot = None THEN {} ELSE {slot[1]}

\* The listeners of restart call p's generation are bound (start_http_proxy returned).
HasBound(p) == pc[p] \in {"r_ws", "r_ports", "r_store_http", "r_store_ws", "r_save"}

\* C1: once every restart call has returned, the HTTP and the WS accept loop that
\* remain running are the two the slots hold, and both were created by the same
\* restart call, with the same backend origin and trust flag; never one kind alone.
C1_StartedStoppedAsUnit ==
    Quiescent =>
       /\ LiveLoops = SlotLoops(proxy_shutdown_tx) \cup SlotLoops(ws_proxy_shutdown_tx)
       /\ (proxy_shutdown_tx = None) <=> (ws_proxy_shutdown_tx = None)
       /\ \A l, m \in LiveLoops :
             /\ loops[l].gen = loops[m].gen
             /\ loops[l].backend_url = loops[m].backend_url
             /\ loops[l].skip_cert_validation = loops[m].skip_cert_validation

\* C2: when a restart call binds its listeners, every accept loop it signalled in
\* its stop step has exited.
C2_OldLoopsExitBeforeNewBind ==
    \A p \in Procs : HasBound(p) => \A l \in locals[p].taken : l \notin DOMAIN loops

\* C3: once every restart call has returned and the one started last returned a
\* bind error, both slots are empty and no accept loop keeps its channel open.
C3_NoInstanceAfterFailure ==
    \A p \in Procs :
       (Quiescent /\ locals[p].ret = "bind_err" /\ locals[p].gen = nextGen - 1) =>
          /\ proxy_shutdown_tx = None
          /\ ws_proxy_shutdown_tx = None
          /\ LiveLoops = {}

\* C3, the part that holds: when a restart call has returned a bind error, no
\* accept loop of that call keeps its channel open and no slot holds a handle of
\* that call; and when no other restart call ran meanwhile or since, both slots
\* are empty and no accept loop at all keeps its channel open.
C3_FailStop ==
    \A p \in Procs :
       locals[p].ret = "bind_err" =>
          /\ \A l \in LiveLoops : loops[l].gen # locals[p].gen
          /\ \A l \in SlotLoops(proxy_shutdown_tx) \cup SlotLoops(ws_proxy_shutdown_tx) :
                l[1] # locals[p].gen
          /\ (~overlapped /\ locals[p].gen = nextGen - 1) =>
                /\ proxy_shutdown_tx = None
                /\ ws_proxy_shutdown_tx = None
                /\ LiveLoops = {}

\* A restart that followed a successful one failed at the WS bind: its HTTP loop,
\* already started, and the loops of the generation before are shutting down.
C3_Witness ==
    \E p \in Procs :
       /\ locals[p].ret = "bind_err"
       /\ locals[p].gen = 2 /\ nextGen = 3 /\ ~overlapped
       /\ <<2, "http">> \in DOMAIN loops
       /\ <<1, "http">> \in DOMAIN loops

\* C7: the shutdown signal is sent at most once to an accept loop; a stop step
\* that finds its slot empty changes no accept loop and goes on; and no handle is
\* consumed by two restart calls, nor left in a slot once consumed.
C7_TakeSteps ==
    \A p \in Procs :
       /\ (TakeHttp(p) /\ proxy_shutdown_tx = None) =>
             (loops' = loops /\ pc'[p] = "r_take_ws")
       /\ (TakeWs(p) /\ ws_proxy_shutdown_tx = None) =>
             (loops' = loops /\ pc'[p] = "r_settings")

C7_Consumed ==
    /\ \A l \in DOMAIN loops : loops[l].sends <= 1
    /\ \A p, q \in Procs : p # q => locals[p].taken \cap locals[q].taken = {}
    /\ \A p \in Procs :
          locals[p].taken \cap
             (SlotLoops(proxy_shutdown_tx) \cup SlotLoops(ws_proxy_shutdown_tx)) = {}

C7_SingleUse == [][C7_TakeSteps]_vars /\ []C7_Consumed

\* Two restart calls race in their stop steps: one took the HTTP handle of the
\* running generation, the other found the slot empty.
C7_Witness ==
    \E p, q \in Procs :
       /\ p # q
       /\ pc[p] \in {"r_take_ws", "r_settings"}
       /\ pc[q] \in {"r_take_ws", "r_settings"}
       /\ locals[p].taken # {}
       /\ locals[q].taken = {}
       /\ \E l \in locals[p].taken : l \in DOMAIN loops /\ loops[l].sends = 1

(***************************************************************************)
(* Properties of the connection tasks.                                     *)
(***************************************************************************)
\* C4 as stated: a request issued once a restart has completed is forwarded to
\* the origin that restart started the proxies with, on whatever connection whose
\* accept loop had not been signalled when it accepted it.
C4_AfterRestartNewOrigin ==
    \A i \in DOMAIN conns :
       (conns[i].target # None /\ conns[i].expect # None /\ ~conns[i].late) =>
          conns[i].target = conns[i].expect

\* C4 as amended: every request is forwarded to the origin the generation of the
\* accept loop that accepted its connection was started with: the new origin on
\* a connection the new generation accepted; and a request in flight keeps its
\* target whatever the supervisor does.
C4_TargetOfGeneration ==
    \A i \in DOMAIN conns :
       conns[i].target # None =>
          /\ conns[i].target = Some(genCfg[conns[i].gen][1])
          /\ (conns[i].expect # None /\ conns[i].gen = nextGen - 1) =>
                conns[i].target = conns[i].expect

C4_InFlightKept ==
    \A i \in DOMAIN conns :
       (conns[i].target # None /\ conns'[i].target # None) =>
          conns'[i].target = conns[i].target

C4_RequestsFollowTheirGeneration ==
    [][C4_InFlightKept]_vars /\ []C4_TargetOfGeneration

\* After the restart to a new origin completed, a request is in flight to the new
\* origin on a connection the new generation accepted.
C4_Witness ==
    \E i \in DOMAIN conns :
       /\ conns[i].target # None
       /\ conns[i].gen = 2
       /\ conns[i].expect = conns[i].target
       /\ genCfg[1] # None
       /\ genCfg[1][1] # genCfg[2][1]

\* C5: no connection is accepted by an accept loop after the shutdown signal was
\* sent to it.
C5_NoAcceptAfterSignal ==
    \A i \in DOMAIN conns : ~conns[i].late

\* C6: no step of a restart and no exit of an accept loop changes a connection
\* task, and a connection task can go on whether or not its accept loop still
\* runs: a request in flight gets its response, a relaying session relays.
C6_ShutdownSteps ==
    ((\E p \in Procs : RestartStep(p)) \/ (\E l \in DOMAIN loops : LoopExit(l)))
       => conns' = conns

C6_TasksGoOn ==
    \A i \in DOMAIN conns :
       /\ conns[i].target # None => ENABLED HttpResponse(i)
       /\ conns[i].st = "relay" => ENABLED WsRelay(i) /\ ENABLED WsEnd(i)

C6_SignalLeavesConnectionsAlone == [][C6_ShutdownSteps]_vars /\ []C6_TasksGoOn

\* A WebSocket session relays a frame after its accept loop was signalled and
\* has exited.
C6_Witness ==
    \E i \in DOMAIN conns :
       /\ conns[i].kind = "ws" /\ conns[i].st = "relay" /\ conns[i].outlived
       /\ ~conns[i].late

(***************************************************************************)
(* Properties of one relay session.                                        *)
(***************************************************************************)
IsPrefix(a, b) == Len(a) <= Len(b) /\ \A k \in 1 .. Len(a) : a[k] = b[k]

\* The frames a stream yields before its first read error or end.
FramesOf(stream) ==
    LET stops == {k \in 1 .. Len(stream) : stream[k] \notin Frames}
        n == IF stops = {} THEN Len(stream)
             ELSE (CHOOSE k \in stops : \A j \in stops : k <= j) - 1
    IN SubSeq(stream, 1, n)

LoopEnded == sess.c2b = Done \/ sess.b2c = Done

\* C8: as soon as one relay loop has ended the session is over and neither loop
\* is left running; from then on no frame is written to either side.
C8_BothTornDown ==
    LoopEnded =>
       /\ sess.st = "closed"
       /\ sess.c2b \in {Done, Dropped}
       /\ sess.b2c \in {Done, Dropped}

C8_NothingAfter ==
    LoopEnded => (sess'.out_b = sess.out_b /\ sess'.out_c = sess.out_c)

C8_FirstFailureWins == [][C8_NothingAfter]_vars /\ []C8_BothTornDown

\* The client->backend loop ended while the backend still had a frame to relay,
\* the backend->client loop having relayed one before.
C8_Witness ==
    /\ sess.st = "closed"
    /\ sess.c2b = Done
    /\ sess.b2c = Dropped
    /\ sess.out_c # <<>>
    /\ sess.in_b # <<>> /\ Head(sess.in_b) \in Frames

\* C9: in each direction the frames written to the peer are a prefix of the
\* frames the sender sent, in order, each with its type and payload.
C9_PrefixPerDirection ==
    sess.st # "none" =>
       /\ IsPrefix(sess.out_b, FramesOf(sess.sent_c))
       /\ IsPrefix(sess.out_c, FramesOf(sess.sent_b))

\* Two different frames went client->backend and one backend->client.
C9_Witness ==
    /\ sess.st = "relay"
    /\ Len(sess.out_b) = 2 /\ sess.out_b[1] # sess.out_b[2]
    /\ Len(sess.out_c) >= 1

(***************************************************************************)
(* Properties of one forwarded request.                                    *)
(***************************************************************************)
Count(seq, x) == Cardinality({k \in 1 .. Len(seq) : seq[k] = x})

Named(seq, name) == {k \in 1 .. Len(seq) : HeaderName(seq[k][1]) = name}

\* C10: when the backend returned status S and body B, the reply has status S
\* and body B, has no Transfer-Encoding header, and has every other header of
\* the backend response as often as the response has it; the request sent to the
\* backend has no header named host.
C10_ReplyMirrorsBackend ==
    /\ (fwd.st = "replied" /\ fwd.resp # None /\ fwd.got_body) =>
          LET r == fwd.resp[1]
              reply == fwd.reply[1]
          IN /\ reply.status = r.status
             /\ reply.body = r.body
             /\ Named(reply.headers, "transfer-encoding") = {}
             /\ Len(reply.headers) =
                   Len(r.headers) - Cardinality(Named(r.headers, "transfer-encoding"))
             /\ \A h \in ResponseHeaders :
                   HeaderName(h[1]) # "transfer-encoding" =>
                      Count(reply.headers, <<HeaderName(h[1]), h[2]>>) = Count(r.headers, h)
    /\ (fwd.st # "none" /\ fwd.outbound # None) =>
          Named(fwd.outbound[1].headers, "host") = {}

\* A request with a Host header and another one got a 404 with a body, a
\* Transfer-Encoding header and another header.
C10_Witness ==
    /\ fwd.st = "replied" /\ fwd.resp # None /\ fwd.got_body
    /\ fwd.resp[1].status = 404 /\ fwd.resp[1].body # <<>>
    /\ Named(fwd.resp[1].headers, "transfer-encoding") # {}
    /\ Len(fwd.reply[1].headers) = 1
    /\ Named(fwd.req.headers, "host") # {}
    /\ Len(fwd.outbound[1].headers) = 1

\* C13: the request sent to the backend has every header of the inbound request
\* other than Host, as often and with the value it came with, whatever the bytes
\* of the value, and no Host header; its URL is the backend origin without its
\* trailing slash followed by the inbound path and query; it has a body exactly
\* when the inbound body is not empty.
C13_OutboundCarriesAll ==
    (fwd.st # "none" /\ fwd.outbound # None) =>
       LET out == fwd.outbound[1]
           req == fwd.req
       IN /\ Named(out.headers, "host") = {}
          /\ \A h \in RequestHeaders :
                HeaderName(h[1]) # "host" =>
                   Count(out.headers, <<HeaderName(h[1]), h[2]>>) = Count(req.headers, h)
          /\ out.url = (IF fwd.origin[Len(fwd.origin)] = "/"
                           THEN SubSeq(fwd.origin, 1, Len(fwd.origin) - 1)
                           ELSE fwd.origin)
                       \o (IF req.path_and_query = None THEN <<"/">> ELSE req.path_and_query[1])
          /\ (out.body # None) <=> (req.body # <<>>)
          /\ out.body # None => out.body[1] = req.body

\* C17: the request sent to the backend has the method of the inbound request
\* when the upstream client parses it and is a GET otherwise; whatever its method,
\* a request whose body was read is sent to the backend, and the only reply given
\* without a request to the backend is the 400 of an unreadable body.
C17_MethodOrGet ==
    /\ (fwd.st # "none" /\ fwd.outbound # None) =>
          fwd.outbound[1].method =
             (IF fwd.req.method \in UpstreamMethods THEN fwd.req.method ELSE "GET")
    /\ fwd.st = "collected" => (ENABLED SendFails /\ \E r \in Responses : ENABLED SendOk(r))
    /\ (fwd.st = "replied" /\ fwd.outbound = None) => fwd.reply[1].status = 400

\* A request with a method the upstream client does not parse went out as a GET
\* and got the 200 of the backend.
C17_Witness ==
    /\ fwd.st = "replied" /\ fwd.resp # None /\ fwd.got_body
    /\ fwd.req.method = UnparsedMethod
    /\ fwd.outbound[1].method = "GET"
    /\ fwd.reply[1].status = 200


(***************************************************************************)
(* Properties of the connection tasks of a running generation (SpecServe). *)
(***************************************************************************)
BackendFailures == {"send_err", "read_err"}

Others(i) == DOMAIN conns \ {i}

\* C11: a request whose outbound request fails, or whose response cannot be read,
\* is answered 502 with a non-empty body; the step changes no accept loop and no
\* other connection, and the connection it came on stays open.
C11_FailureStep ==
    \A i \in DOMAIN conns, outcome \in BackendFailures :
       HttpError(i, outcome) =>
          /\ conns'[i].error_reply # None
          /\ conns'[i].error_reply[1].status = 502
          /\ conns'[i].error_reply[1].body # <<>>
          /\ conns'[i].st = "serving"
          /\ loops' = loops
          /\ \A j \in Others(i) : conns'[j] = conns[j]

\* C11: a connection whose last request was answered 502 is still served: its
\* next request is taken.
C11_StillServed ==
    \A i \in DOMAIN conns :
       conns[i].failed \in BackendFailures =>
          /\ conns[i].st = "serving"
          /\ conns[i].error_reply[1].status = 502
          /\ ENABLED HttpRequest(i)

\* C11: while the backend is unreachable every request is answered 502 with a
\* non-empty body and the forwarder keeps serving, on the same connection and on
\* new ones.
C11_BadGatewayAndOn == [][C11_FailureStep]_vars /\ []C11_StillServed

\* A request has been answered 502 because its outbound request failed; the
\* accept loop of its connection is accepting, and a connection accepted later
\* has a request in flight.
C11_Witness ==
    \E i \in DOMAIN conns, j \in DOMAIN conns :
       /\ i < j
       /\ conns[i].failed = "send_err" /\ conns[i].error_reply = Some(ProxyErrorReply)
       /\ LoopOf(conns[i]) \in DOMAIN loops /\ loops[LoopOf(conns[i])].chan = "open"
       /\ conns[j].kind = "http" /\ conns[j].st = "serving" /\ conns[j].target # None

\* C12: an accept loop is gone only after its shutdown channel was sent or dropped.
C12_LoopLeaves ==
    \A l \in DOMAIN loops : l \notin DOMAIN loops' => loops[l].chan # "open"

\* C12: an accept error leaves the loop accepting and every connection as it was.
C12_AcceptErrorStep ==
    \A l \in DOMAIN loops :
       AcceptError(l) =>
          /\ DOMAIN loops' = DOMAIN loops
          /\ loops'[l].chan = loops[l].chan
          /\ conns' = conns

\* the steps in which one connection task fails or ends
TaskFailure(i) ==
    \/ WsHandshake(i, FALSE)
    \/ WsDial(i, FALSE)
    \/ WsEnd(i)
    \/ HttpClose(i)
    \/ \E outcome \in ErrorOutcomes : HttpError(i, outcome)

\* C12: the failure of a connection task changes no accept loop and no other task.
C12_TaskFailureStep ==
    \A i \in DOMAIN conns :
       (conns'[i] # conns[i] /\ TaskFailure(i)) =>
          loops' = loops /\ \A j \in Others(i) : conns'[j] = conns[j]

\* C12: per-connection failures are contained.
C12_FailuresContained ==
    [][C12_LoopLeaves /\ C12_AcceptErrorStep /\ C12_TaskFailureStep]_vars

\* Both accept loops have had an accept error and are accepting, the backend dial
\* of one connection task has failed and a sibling accepted before it is relaying.
C12_Witness ==
    /\ \A l \in DOMAIN loops : loops[l].erred /\ loops[l].chan = "open"
    /\ Cardinality(DOMAIN loops) = 2
    /\ \E i \in DOMAIN conns, j \in DOMAIN conns :
          /\ i < j
          /\ conns[i].st = "relay"
          /\ conns[j].st = "closed" /\ conns[j].ended = "connect_async"


(***************************************************************************)
(* Properties of the WebSocket connection tasks.                           *)
(***************************************************************************)
\* The endpoint the specification gives for an origin: the leading scheme
\* rewritten, one trailing slash trimmed, /ws appended, the rest unchanged.
StatedEndpoint(origin) ==
    LET scheme == IF origin[1] = "http://" THEN "ws://"
                  ELSE IF origin[1] = "https://" THEN "wss://" ELSE origin[1]
        rewritten == <<scheme>> \o Tail(origin)
        trimmed == IF rewritten[Len(rewritten)] = "/"
                   THEN SubSeq(rewritten, 1, Len(rewritten) - 1) ELSE rewritten
    IN trimmed \o <<"/ws">>

\* C15: every relay session dials the endpoint stated for the origin its
\* generation was started with.
C15_DialsStatedEndpoint ==
    \A i \in DOMAIN conns :
       conns[i].dialed # None =>
          conns[i].dialed = Some(StatedEndpoint(genCfg[conns[i].gen][1]))

\* C16: a task whose upgrade fails returns there and has dialled no backend.
C16_FailedUpgrade ==
    \A i \in DOMAIN conns :
       (conns'[i] # conns[i] /\ WsHandshake(i, FALSE)) =>
          conns'[i].st = "closed" /\ conns[i].dialed = None /\ conns'[i].dialed = None

\* C16: a task whose backend dial fails returns there.
C16_FailedDial ==
    \A i \in DOMAIN conns :
       (conns'[i] # conns[i] /\ WsDial(i, FALSE)) => conns'[i].st = "closed"

\* C16: a task that has returned takes no step; a backend is dialled only by a
\* task whose upgrade succeeded, and the relay loops run only in a task whose
\* dial succeeded.
C16_NothingAfter ==
    \A i \in DOMAIN conns :
       /\ conns[i].st = "closed" => conns'[i] = conns[i]
       /\ (conns[i].st # "dial" /\ conns'[i].st = "dial") => WsHandshake(i, TRUE)
       /\ (conns[i].st # "relay" /\ conns'[i].st = "relay") => WsDial(i, TRUE)

C16_OnlyAfterSuccess ==
    \A i \in DOMAIN conns :
       /\ conns[i].st = "handshake" => conns[i].dialed = None
       /\ conns[i].st = "relay" => conns[i].dialed # None
       /\ conns[i].ended \in {"accept_async", "connect_async"} =>
             ~ENABLED WsRelay(i) /\ ~ENABLED WsDial(i, TRUE)

\* C16: a connection whose upgrade fails is dropped without a backend dial, one
\* whose dial fails is dropped without relaying; the relay loops never start.
C16_DroppedBeforeRelay ==
    [][C16_FailedUpgrade /\ C16_FailedDial /\ C16_NothingAfter]_vars
       /\ []C16_OnlyAfterSuccess

\* One connection was dropped at its failed upgrade and another at its failed
\* backend dial.
C16_Witness ==
    \E i \in DOMAIN conns, j \in DOMAIN conns :
       /\ conns[i].st = "closed" /\ conns[i].ended = "accept_async"
       /\ conns[j].st = "closed" /\ conns[j].ended = "connect_async"


(***************************************************************************)
(* Properties of the ports, the origin and the commands (Spec).            *)
(***************************************************************************)
\* C14: both starts of a restart call have returned: the two ports are distinct
\* and not 0, and on each the accept loop of its kind is running.
C14_StartPorts ==
    \A p \in Procs :
       pc[p] = "r_ports" =>
          /\ locals[p].http_port # 0 /\ locals[p].ws_port # 0
          /\ locals[p].http_port # locals[p].ws_port
          /\ <<locals[p].gen, "http">> \in DOMAIN loops
          /\ loops[<<locals[p].gen, "http">>].port = locals[p].http_port
          /\ loops[<<locals[p].gen, "http">>].chan = "open"
          /\ <<locals[p].gen, "ws">> \in DOMAIN loops
          /\ loops[<<locals[p].gen, "ws">>].port = locals[p].ws_port
          /\ loops[<<locals[p].gen, "ws">>].chan = "open"

\* C14: a restart call about to return holds in the settings the two ports its
\* own starts returned.
C14_PortsRecorded ==
    \A p \in Procs :
       pc[p] = "r_save" =>
          /\ settings.proxy_port = locals[p].http_port
          /\ settings.ws_proxy_port = locals[p].ws_port

\* C14: a successful start returns two distinct non-zero ports with running
\* accept loops, and a successful restart records exactly these as the current
\* ports of the settings.
C14_StartedAndRecorded == C14_StartPorts /\ C14_PortsRecorded

\* An accept loop of the kind holds a listener on the port, signalled or not.
Listening(kind, port) ==
    \E l \in DOMAIN loops : loops[l].kind = kind /\ loops[l].port = port

\* C18: with no restart in progress, a port that get_proxy_url or
\* get_ws_proxy_port returns is one an accept loop of that kind listens on;
\* with no such loop the command returns its error.
C18_ReportedPortsListen ==
    Quiescent =>
       /\ get_proxy_url.ok => Listening("http", get_proxy_url.val[2])
       /\ get_ws_proxy_port.ok => Listening("ws", get_ws_proxy_port.val)

\* no command and no restart is in progress
Idle == \A p \in Procs : pc[p] \in {"idle", "done"}

\* C19: with no command and no restart in progress, every running accept loop
\* has the backend origin and the trust flag the settings hold.
C19_InstancesMatchSettings ==
    Idle =>
       \A l \in LiveLoops :
          /\ loops[l].backend_url = settings.backend_url
          /\ loops[l].skip_cert_validation = settings.skip_cert_validation

\* a supplied value differs from the stored one
Differs(url, skip) ==
    \/ url # None /\ url[1] # settings.backend_url
    \/ skip # None /\ skip[1] # settings.skip_cert_validation

\* C20: update_settings notes a restart as needed exactly when a supplied value
\* differs, and changes nothing when none does.
C20_Decides ==
    \A p \in Procs \ {Startup}, url \in OptUrls, skip \in OptBools :
       (pc[p] = "idle" /\ UpdateSettings(p, url, skip)) =>
          /\ locals'[p].needs_proxy_restart <=> Differs(url, skip)
          /\ ~Differs(url, skip) => settings' = settings

\* C20: the call goes on to restart_proxy_internal exactly when a value differed.
C20_Restarts ==
    \A p \in Procs \ {Startup} :
       (pc[p] = "u_save" /\ pc'[p] # "u_save") =>
          (pc'[p] = "r_take_http" <=> locals[p].needs_proxy_restart)

\* C20: a call that found no difference leaves the accept loops, both slots, the
\* ports and the origin as they are.
C20_Frame ==
    \A p \in Procs \ {Startup} :
       (pc[p] = "u_save" /\ pc'[p] # "u_save" /\ ~locals[p].needs_proxy_restart) =>
          /\ loops' = loops
          /\ proxy_shutdown_tx' = proxy_shutdown_tx
          /\ ws_proxy_shutdown_tx' = ws_proxy_shutdown_tx
          /\ settings' = settings

\* C20: update_settings restarts the proxy if and only if a supplied value
\* differs from the stored one, and otherwise changes nothing.
C20_RestartIffDiffers == [][C20_Decides /\ C20_Restarts /\ C20_Frame]_vars


(***************************************************************************)
(* Properties of the shutdown senders (SpecFair).                          *)
(***************************************************************************)
\* the sender of accept loop l is in the slot of its kind
InSlot(l) ==
    \/ l[2] = "http" /\ proxy_shutdown_tx = Some(l)
    \/ l[2] = "ws" /\ ws_proxy_shutdown_tx = Some(l)

\* the sender of accept loop l is a local of a restart call in progress
InCall(l) ==
    \E p \in Procs :
       /\ InRestart(p)
       /\ locals[p].http_shutdown_tx = Some(l) \/ locals[p].ws_shutdown_tx = Some(l)

\* C21: every accept loop still accepting has its sender in the slot of its kind
\* or in a restart call in progress.
C21_SenderHeld == \A l \in LiveLoops : InSlot(l) \/ InCall(l)

\* C21: an accept loop whose sender was sent, or dropped or overwritten unsent,
\* exits.
C21_Exits ==
    \A l \in LoopIds :
       (l \in DOMAIN loops /\ loops[l].chan # "open") ~> (l \notin DOMAIN loops)

\* C21: no accept loop is orphaned, and every loop whose sender was sent or
\* dropped eventually exits.
C21_NoOrphanedLoop == []C21_SenderHeld /\ C21_Exits

\* The WS start of a restart call failed: the HTTP accept loop the call had
\* started has its sender dropped unsent, and the call has returned.
C21_Witness ==
    \E p \in Procs :
       /\ locals[p].ret = "bind_err"
       /\ <<locals[p].gen, "http">> \in DOMAIN loops
       /\ loops[<<locals[p].gen, "http">>].chan = "dropped"


(***************************************************************************)
(* Properties of the locks (SpecLock).                                     *)
(***************************************************************************)
\* C22: no operation holds two of the three locks at a time.
C22_OneAtATime == \A p \in Procs : Cardinality(locals[p].holds) <= 1

\* C22: a guarded value is read or written only by a task that holds its lock.
C22_UnderLock ==
    \A p \in Procs :
       (InOperation(p) /\ NextItem(p)[1] = "use") => NextItem(p)[2] \in locals[p].holds

\* C22: while an operation is running some task can take a step.
C22_NoDeadlock ==
    (\E p \in Procs : pc[p] = "l_run") => \E p \in Procs : ENABLED TaskRuns(p)

\* C22: every operation returns, holding nothing.  A task runs one operation
\* and "done" is final, so this is: from some point on no task is in an operation.
C22_Returns ==
    <>[](\A p \in Procs : pc[p] \in {"idle", "done"} /\ locals[p].holds = {})

\* C22: the three locks are never held two at a time by one operation, no
\* interleaving of the operations deadlocks, every operation returns under fair
\* scheduling, and the settings are accessed only under their lock.
C22_LocksOneAtATime ==
    [](C22_OneAtATime /\ C22_UnderLock /\ C22_NoDeadlock) /\ C22_Returns

\* The startup restart holds the settings lock while one command waits for it
\* and the other waits for the HTTP slot, held by nobody.
C22_Witness ==
    /\ "settings" \in locals[Startup].holds
    /\ InOperation(Ui) /\ NextItem(Ui) = Lock("settings")
    /\ InOperation(Ui2) /\ NextItem(Ui2) = Lock("proxy_shutdown_tx")

===============================================================================
